---- MODULE Spec2Model ----
(***************************************************************************)
(* Insulin dosing practice quiz (dosing-quiz.js): the scenario generator,  *)
(* the dose oracle and grader inside checkAnswer, the settings validation  *)
(* of startQuiz and the session statistics.                                *)
(*                                                                         *)
(* Units.  Grams of carbohydrate and mg/dL are integers.  A portion is     *)
(* held in half servings (0.5 -> 1, 1 -> 2, 1.5 -> 3, ...).  A dose is     *)
(* held in tenths of a unit (1.7 units -> 17): every dose the code         *)
(* computes went through toFixed(1), and the learner's doses are typed     *)
(* with one decimal.  JavaScript numbers are IEEE-754 doubles; where the   *)
(* code divides, subtracts or adds doses the model carries the rounding    *)
(* error of the double exactly (see "IEEE-754" below).                     *)
(***************************************************************************)
EXTENDS Integers, Sequences, FiniteSets, TLC

VARIABLES currentFood, currentPortion, currentBG, userSettings, stats,
          feedback, statsPanel, raised

\* The fractal background script (an IIFE with its own canvas and
\* animationId) and the browser state it lives in.
VARIABLES theme, innerWidth, canvas, animationId, frameRequests, lastHandle,
          framesRun, records, loaded, drew

\* The knowledge quiz (quiz.js): the global quiz and #quiz-container.
VARIABLES quiz, quizContainer

dosingVars == <<currentFood, currentPortion, currentBG, userSettings, stats,
                feedback, statsPanel, raised>>

fractalVars == <<theme, innerWidth, canvas, animationId, frameRequests,
                 lastHandle, framesRun, records, loaded, drew>>

quizVars == <<quiz, quizContainer>>

vars == <<dosingVars, fractalVars, quizVars>>

(***************************************************************************)
(* Bounds of the model.                                                    *)
(***************************************************************************)
\* checkAnswer is explored until totalAttempts reaches this count.
MaxAttempts == 2
\* The fractal script is explored until this many animation frames were
\* requested.
MaxResizes == 3
\* At most this many data-theme changes are made by one task, before the
\* MutationObserver callback runs.
MaxRecords == 2
\* The knowledge quiz is explored over the runs with at most this many
\* slips: a wrong answer, a selectAnswer on a question already answered, a
\* nextQuestion on a question not answered or on a complete quiz.
MaxSlips == 2
\* A practice session is explored until totalAttempts reaches this count.
MaxSession == 40
\* Math.random() is explored on the grid {0/RandomGrid, ..., (RandomGrid-1)/RandomGrid}.
RandomGrid == 2

(***************************************************************************)
(* The nutrition catalog (totalCarbs, fiber in grams per serving; portions *)
(* in half servings).  The display-only fields are left out.               *)
(***************************************************************************)
foodDatabase ==
  << [name |-> "Cheerios Cereal",        totalCarbs |-> 20, fiber |-> 3, portions |-> <<1, 2, 3, 4>>],
     [name |-> "Kraft Mac & Cheese",     totalCarbs |-> 47, fiber |-> 2, portions |-> <<1, 2, 3, 4>>],
     [name |-> "Apple (Medium)",         totalCarbs |-> 25, fiber |-> 4, portions |-> <<1, 2, 3, 4>>],
     [name |-> "White Bread",            totalCarbs |-> 26, fiber |-> 1, portions |-> <<2, 4, 6, 8>>],
     [name |-> "Peanut Butter",          totalCarbs |-> 7,  fiber |-> 2, portions |-> <<2, 4, 6>>],
     [name |-> "Orange Juice",           totalCarbs |-> 26, fiber |-> 0, portions |-> <<1, 2, 3, 4>>],
     [name |-> "Pizza (Frozen)",         totalCarbs |-> 38, fiber |-> 2, portions |-> <<2, 4, 6>>],
     [name |-> "Banana (Medium)",        totalCarbs |-> 27, fiber |-> 3, portions |-> <<1, 2, 3, 4>>],
     [name |-> "Yogurt (Vanilla)",       totalCarbs |-> 25, fiber |-> 0, portions |-> <<1, 2, 3, 4>>],
     [name |-> "Spaghetti with Sauce",   totalCarbs |-> 43, fiber |-> 4, portions |-> <<1, 2, 3, 4>>],
     [name |-> "Granola Bar",            totalCarbs |-> 23, fiber |-> 2, portions |-> <<2, 4, 6>>],
     [name |-> "Chocolate Chip Cookies", totalCarbs |-> 22, fiber |-> 1, portions |-> <<2, 4, 6, 8>>] >>

\* currentFood = null before the first generateQuestion.
NoFood == [name |-> "null", totalCarbs |-> 0, fiber |-> 0, portions |-> <<>>]

(***************************************************************************)
(* Input fields.  parseFloat(element.value) is NaN for an empty or         *)
(* non-numeric field and the number typed otherwise.                       *)
(***************************************************************************)
NaNField == [isNaN |-> TRUE, val |-> 0]
Num(v) == [isNaN |-> FALSE, val |-> v]

\* JavaScript ToBoolean of a number: NaN, +0 and -0 are falsy.
Falsy(f) == f.isNaN \/ f.val = 0

\* parseFloat(...) || 0
OrZero(f) == IF Falsy(f) THEN Num(0) ELSE f

\* x === null || x === undefined, for x a result of parseFloat: a number
\* (NaN included) is neither null nor undefined.
IsNullOrUndefined(f) == FALSE

(***************************************************************************)
(* IEEE-754 doubles.                                                       *)
(*                                                                         *)
(* Every double the dose arithmetic meets is the quotient of two small     *)
(* integers or lies within a few ulps of a tenth K/10.  The model keeps    *)
(* such a number as the exact rational together with the exact rounding    *)
(* error, obtained by long division modulo small numbers, so that no       *)
(* 53-bit integer is ever formed.                                          *)
(***************************************************************************)
RECURSIVE Pow2(_)
Pow2(n) == IF n = 0 THEN 1 ELSE 2 * Pow2(n - 1)

\* 2^e mod m, by repeated squaring
RECURSIVE Pow2Mod(_, _)
Pow2Mod(e, m) ==
  IF e = 0 THEN 1 % m
  ELSE LET h == Pow2Mod(e \div 2, m)
       IN  IF e % 2 = 0 THEN (h * h) % m ELSE (2 * h * h) % m

\* The binary exponent of num/den > 0: the E with 2^E <= num/den < 2^(E+1).
RECURSIVE Expo(_, _)
Expo(num, den) ==
  IF num < den THEN Expo(2 * num, den) - 1
  ELSE IF num >= 2 * den THEN Expo(num, 2 * den) + 1
  ELSE 0

\* The sign of fl(p/q) - p/q, where fl(p/q) is the double that p / q
\* evaluates to (round to nearest, ties to even; 53-bit significand).
\* With E = Expo(p, q), fl(p/q) = M * 2^(E-52) where M is p*2^(52-E)/q
\* rounded; r is p*2^(52-E) mod 2q, which holds the remainder of that
\* division (r mod q) and the parity of its quotient (r div q).
DivErrSign(p, q) ==
  LET E    == Expo(p, q)
      r    == (p * Pow2Mod(52 - E, 2 * q)) % (2 * q)
      R    == r % q
      qOdd == (r \div q) % 2 = 1
  IN  IF R = 0 THEN 0
      ELSE IF 2 * R < q THEN -1
      ELSE IF 2 * R > q THEN 1
      ELSE IF qOdd THEN 1 ELSE -1

\* parseFloat((p / q).toFixed(1)) in tenths, for integers p >= 0, q > 0.
\* toFixed(1) takes the n for which n/10 is closest to the exact value of
\* the double, the larger n of two equally close.  10*p/q + 1/2 = A/(2q):
\* unless p/q is exactly halfway between two tenths (A divisible by 2q) the
\* error of the double is too small to change n; when it is halfway, the
\* double decides: below the halfway point gives the lower tenth.
ToFixed1Div(p, q) ==
  IF p = 0 THEN 0
  ELSE LET A  == 20 * p + q
           n0 == A \div (2 * q)
       IN  IF A % (2 * q) = 0 /\ DivErrSign(p, q) < 0 THEN n0 - 1 ELSE n0

\* The double nearest k/10 (what parseFloat gives for a numeral with one
\* decimal) is (k + TenthErr(k) * 2^-56) / 10.
TenthErr(k) ==
  IF k = 0 THEN 0
  ELSE LET E    == Expo(k, 10)
           r    == (k * Pow2Mod(52 - E, 20)) % 20
           R    == r % 10
           qOdd == (r \div 10) % 2 = 1
           c    == IF R = 0 THEN 0
                   ELSE IF R < 5 THEN 0 - R
                   ELSE IF R > 5 THEN 10 - R
                   ELSE IF qOdd THEN 5 ELSE -5
       IN  c * Pow2(E + 4)

\* The exact number (K + D * 2^-56) / 10, K > 0, rounded to a double (round
\* to nearest, ties to even): the D of the result.  G is the spacing of the
\* doubles at that magnitude, in the same unit as D.
RoundToDouble(K, D) ==
  LET E0   == Expo(K, 10)
      pow  == IF E0 >= 0 THEN K = 10 * Pow2(E0) ELSE K * Pow2(0 - E0) = 10
      E    == IF D < 0 /\ pow THEN E0 - 1 ELSE E0
      G    == 10 * Pow2(E + 4)
      v    == (Pow2(E + 4) * ((K * Pow2Mod(52 - E, 20)) % 20) + D) % (2 * G)
      rem  == v % G
      qOdd == (v \div G) % 2 = 1
  IN  IF rem = 0 THEN D
      ELSE IF 2 * rem < G THEN D - rem
      ELSE IF 2 * rem > G THEN D + G - rem
      ELSE IF qOdd THEN D + G - rem ELSE D - rem

\* Math.abs(a - b) for the doubles nearest a/10 and b/10, as <<K, D>>:
\* the double (K + D * 2^-56) / 10.
AbsDiff(a, b) ==
  LET hi == IF a >= b THEN a ELSE b
      lo == IF a >= b THEN b ELSE a
  IN  IF hi = lo THEN <<0, 0>>
      ELSE <<hi - lo, RoundToDouble(hi - lo, TenthErr(hi) - TenthErr(lo))>>

\* x <= t/10 for the double x = <<K, D>> and the double nearest t/10.
LeqTenth(x, t) == x[1] < t \/ (x[1] = t /\ x[2] <= TenthErr(t))

\* parseFloat((a + b).toFixed(1)) in tenths, for the doubles nearest a/10
\* and b/10: the tenth nearest the double sum (K + D * 2^-56) / 10.
ToFixed1Sum(a, b) ==
  LET K == a + b
      D == IF K = 0 THEN 0 ELSE RoundToDouble(K, TenthErr(a) + TenthErr(b))
      h == D \div Pow2(28)
  IN  IF h >= Pow2(27) THEN K + 1
      ELSE IF h < 0 - Pow2(27) THEN K - 1
      ELSE K

\* Math.round(n / 2) for an integer n >= 0: halves round up.
RoundHalves(n) == (n + 1) \div 2

\* fl(p/q) - p/q for integers 0 < p <= q, in units of 2^(E-52) / q with
\* E = Expo(p, q): the double that p / q evaluates to is
\* p/q + DivErr(p, q) * 2^(E-52) / q.
DivErr(p, q) ==
  LET E    == Expo(p, q)
      r    == (p * Pow2Mod(52 - E, 2 * q)) % (2 * q)
      R    == r % q
      qOdd == (r \div q) % 2 = 1
  IN  IF R = 0 THEN 0
      ELSE IF 2 * R < q THEN 0 - R
      ELSE IF 2 * R > q THEN q - R
      ELSE IF qOdd THEN q - R ELSE 0 - R

\* (p / q) * 100 < 100p/q in doubles, when 100p/q = H is itself a double
\* (0 < p <= q).  The product 100 * fl(p/q) = H + 100 * DivErr * 2^(E-52) / q
\* is rounded to the doubles around H, 2^(m-52) apart (half that below a
\* power of two), m = Expo(100p, q); a tie goes to H, whose significand is
\* even.
TimesHundredBelow(p, q) ==
  LET E   == Expo(p, q)
      m   == Expo(100 * p, q)
      pow == IF m >= 0 THEN 100 * p = q * Pow2(m) ELSE 100 * p * Pow2(0 - m) = q
  IN  IF pow THEN 400 * DivErr(p, q) < 0 - q * Pow2(m - E)
      ELSE 200 * DivErr(p, q) < 0 - q * Pow2(m - E)

RoundPermille(p, q) == (2000 * p + q) \div (2 * q)

\* Math.round((p / q) * 100) for integers 0 <= p <= q, q > 0.  Math.round
\* takes the integer nearest its argument, the larger of two equally near.
\* 100p/q + 1/2 = N/(2q): unless 100p/q is exactly halfway between two
\* integers (N divisible by 2q) the error of the double is too small to
\* change the result; when it is halfway, the double decides.
RoundPercent(p, q) ==
  IF p = 0 THEN 0
  ELSE LET N  == 200 * p + q
           n0 == N \div (2 * q)
       IN  IF N % (2 * q) = 0 /\ TimesHundredBelow(p, q) THEN n0 - 1 ELSE n0

\* Math.floor(r * n) for r = k / RandomGrid.
RandomIndex(k, n) == (k * n) \div RandomGrid

(***************************************************************************)
(* The three scripts share no state.  Each specification below runs one of *)
(* them and holds the other two at their state on script start.            *)
(***************************************************************************)
\* let canvas with no canvas created yet.
NoCanvas == [display |-> "null"]

\* The fractal script has just run on a page whose data-theme is t in a
\* window w pixels wide: canvas undefined, animationId null, nothing
\* requested or observed yet.
FractalAtStart(t, w) ==
  /\ theme = t
  /\ innerWidth = w
  /\ canvas = NoCanvas
  /\ animationId = 0
  /\ frameRequests = {}
  /\ lastHandle = 0
  /\ framesRun = 0
  /\ records = 0
  /\ loaded = FALSE
  /\ drew = FALSE

\* let quiz; before startQuiz has run, and the untouched #quiz-container.
NoQuiz == [quizType |-> "undefined"]
NoView == [view |-> "none"]

QuizAtStart == quiz = NoQuiz /\ quizContainer = NoView

(***************************************************************************)
(* State.                                                                  *)
(*   currentFood, currentPortion, currentBG : the current scenario         *)
(*   userSettings, stats                    : as in the source             *)
(*   feedback : the content of #feedback-section: the feedback type and    *)
(*              the data object handed to displayFeedback, or none         *)
(*   statsPanel : the texts of #total-attempts, #correct-count and         *)
(*              #accuracy as updateStats last wrote them, or none          *)
(*   raised   : what the last handler call raised: the text of its alert,  *)
(*              its uncaught exception, or "" when it raised nothing       *)
(***************************************************************************)
NoFeedback == [type |-> "none"]

\* The three texts before updateStats has written them: they come from the
\* page's markup.
NoStatsPanel == [written |-> FALSE]

AlertFillSettings == "Please fill in all your dosing settings!"
AlertRealistic    == "Please enter realistic values for your settings."
AlertFillFields   == "Please fill in all fields before checking your answer!"
\* currentFood.totalCarbs with currentFood = null
TypeErrorNull     == "TypeError: currentFood is null"

Init ==
  /\ currentFood = NoFood
  /\ currentPortion = 2
  /\ currentBG = 120
  /\ userSettings = [carbRatio |-> 10, correctionFactor |-> 50, targetBG |-> 100]
  /\ stats = [totalAttempts |-> 0, correctAnswers |-> 0]
  /\ feedback = NoFeedback
  /\ statsPanel = NoStatsPanel
  /\ raised = ""
  /\ FractalAtStart("null", 1024)
  /\ QuizAtStart

(***************************************************************************)
(* generateQuestion.  kFood, kPortion, kBG are its three Math.random()     *)
(* draws, as numerators over RandomGrid.                                   *)
(***************************************************************************)
RandomDraws == 0 .. RandomGrid - 1

\* Math.floor(Math.random() * (280 - 80 + 1)) + 80
DrawBG(kBG) == RandomIndex(kBG, 280 - 80 + 1) + 80

RoundToFiveSkipped(bg) == bg

\* Math.round(bg / 5) * 5
RoundToFive(bg) == ((2 * bg + 5) \div 10) * 5

generateQuestionKeepsFeedback ==
  \E kFood \in RandomDraws, kPortion \in RandomDraws, kBG \in RandomDraws :
    LET food == foodDatabase[RandomIndex(kFood, Len(foodDatabase)) + 1]
        portionIndex == RandomIndex(kPortion, Len(food.portions))
    IN  /\ feedback' = feedback
        /\ currentFood' = food
        /\ currentPortion' = food.portions[portionIndex + 1]
        /\ currentBG' = RoundToFive(DrawBG(kBG))

generateQuestion ==
  \E kFood \in RandomDraws, kPortion \in RandomDraws, kBG \in RandomDraws :
    LET food == foodDatabase[RandomIndex(kFood, Len(foodDatabase)) + 1]
        portionIndex == RandomIndex(kPortion, Len(food.portions))
    IN  /\ feedback' = NoFeedback
        /\ currentFood' = food
        /\ currentPortion' = food.portions[portionIndex + 1]
        /\ currentBG' = RoundToFive(DrawBG(kBG))

(***************************************************************************)
(* startQuiz.  The three arguments are the parsed fields of the settings   *)
(* form.                                                                   *)
(***************************************************************************)
\* !carbRatio || !correctionFactor || !targetBG
SettingsMissing(carbRatio, correctionFactor, targetBG) ==
  Falsy(carbRatio) \/ Falsy(correctionFactor) \/ Falsy(targetBG)

SettingsUnrealisticNoRange(carbRatio, correctionFactor, targetBG) ==
  carbRatio.val <= 0 \/ correctionFactor.val <= 0

\* carbRatio <= 0 || correctionFactor <= 0 || targetBG < 70 || targetBG > 180
SettingsUnrealistic(carbRatio, correctionFactor, targetBG) ==
  \/ carbRatio.val <= 0
  \/ correctionFactor.val <= 0
  \/ targetBG.val < 70
  \/ targetBG.val > 180

startQuiz(carbRatio, correctionFactor, targetBG) ==
  IF SettingsMissing(carbRatio, correctionFactor, targetBG) THEN
    /\ raised' = AlertFillSettings
    /\ UNCHANGED <<currentFood, currentPortion, currentBG, userSettings, stats, feedback, statsPanel>>
  ELSE IF SettingsUnrealistic(carbRatio, correctionFactor, targetBG) THEN
    /\ raised' = AlertRealistic
    /\ UNCHANGED <<currentFood, currentPortion, currentBG, userSettings, stats, feedback, statsPanel>>
  ELSE
    /\ userSettings' = [carbRatio |-> carbRatio.val,
                        correctionFactor |-> correctionFactor.val,
                        targetBG |-> targetBG.val]
    /\ UNCHANGED <<stats, statsPanel>>
    /\ raised' = ""
    /\ generateQuestion

nextQuestion ==
  /\ UNCHANGED <<userSettings, stats, statsPanel>>
  /\ raised' = ""
  /\ generateQuestion

(***************************************************************************)
(* checkAnswer: the dose oracle.                                           *)
(***************************************************************************)
CorrectCarbsSwapped(food, portion) == RoundHalves((food.fiber - food.totalCarbs) * portion)

\* Math.round((currentFood.totalCarbs - currentFood.fiber) * currentPortion)
CorrectCarbs(food, portion) == RoundHalves((food.totalCarbs - food.fiber) * portion)

\* parseFloat((correctCarbs / userSettings.carbRatio).toFixed(1))
CorrectInsulinCarbs(correctCarbs, settings) == ToFixed1Div(correctCarbs, settings.carbRatio)

CorrectInsulinCorrectionAbs(bg, settings) ==
  LET bgDifference == bg - settings.targetBG
  IN  IF bgDifference >= 0
      THEN ToFixed1Div(bgDifference, settings.correctionFactor)
      ELSE ToFixed1Div(0 - bgDifference, settings.correctionFactor)

\* bgDifference > 0 ? parseFloat((bgDifference / correctionFactor).toFixed(1)) : 0
CorrectInsulinCorrection(bg, settings) ==
  LET bgDifference == bg - settings.targetBG
  IN  IF bgDifference > 0
      THEN ToFixed1Div(bgDifference, settings.correctionFactor)
      ELSE 0

CorrectTotalDoseWhole(correctInsulinCarbs, correctInsulinCorrection) ==
  ((ToFixed1Sum(correctInsulinCarbs, correctInsulinCorrection) + 5) \div 10) * 10

\* parseFloat((correctInsulinCarbs + correctInsulinCorrection).toFixed(1))
CorrectTotalDose(correctInsulinCarbs, correctInsulinCorrection) ==
  ToFixed1Sum(correctInsulinCarbs, correctInsulinCorrection)

(***************************************************************************)
(* checkAnswer: the grader.                                                *)
(***************************************************************************)
\* Math.abs(userTotalDose - correctTotalDose) <= t/10; false when
\* userTotalDose is NaN (every comparison with NaN is false).
DoseWithin(userTotalDose, correctTotalDose, t) ==
  /\ ~userTotalDose.isNaN
  /\ LeqTenth(AbsDiff(userTotalDose.val, correctTotalDose), t)

\* Math.abs(userCarbsEating - correctCarbs) <= g, both whole grams.
CarbsWithin(userCarbsEating, correctCarbs, g) ==
  /\ ~userCarbsEating.isNaN
  /\ userCarbsEating.val - correctCarbs <= g
  /\ correctCarbs - userCarbsEating.val <= g

FeedbackTypeBanded(userTotalDose, userCarbsEating, correctTotalDose, correctCarbs) ==
  IF DoseWithin(userTotalDose, correctTotalDose, 3)
       /\ CarbsWithin(userCarbsEating, correctCarbs, 2) THEN "correct"
  ELSE IF DoseWithin(userTotalDose, correctTotalDose, 10)
       /\ CarbsWithin(userCarbsEating, correctCarbs, 5)
       /\ ~CarbsWithin(userCarbsEating, correctCarbs, 2) THEN "close"
  ELSE "incorrect"

\* The if / else if / else of lines 320-333.
FeedbackType(userTotalDose, userCarbsEating, correctTotalDose, correctCarbs) ==
  IF DoseWithin(userTotalDose, correctTotalDose, 3)
       /\ CarbsWithin(userCarbsEating, correctCarbs, 2) THEN "correct"
  ELSE IF DoseWithin(userTotalDose, correctTotalDose, 10)
       /\ CarbsWithin(userCarbsEating, correctCarbs, 5) THEN "close"
  ELSE "incorrect"

CountAttemptOnce(s, feedbackType) ==
  [totalAttempts |-> s.totalAttempts + 1,
   correctAnswers |-> IF feedbackType = "correct" THEN 1 ELSE s.correctAnswers]

CountAttemptTwice(s, feedbackType) ==
  [totalAttempts |-> s.totalAttempts + 2,
   correctAnswers |-> s.correctAnswers + (IF feedbackType = "correct" THEN 2 ELSE 0)]

CountAttemptCloseToo(s, feedbackType) ==
  [totalAttempts |-> s.totalAttempts + 1,
   correctAnswers |-> s.correctAnswers + (IF feedbackType # "incorrect" THEN 1 ELSE 0)]

\* stats.totalAttempts++ and, in the correct branch, stats.correctAnswers++
CountAttempt(s, feedbackType) ==
  [totalAttempts |-> s.totalAttempts + 1,
   correctAnswers |-> s.correctAnswers + (IF feedbackType = "correct" THEN 1 ELSE 0)]

\* !userCarbsEating || !userInsulinCarbs || userTotalDose === null
\*   || userTotalDose === undefined
AnswerRejected(userCarbsEating, userInsulinCarbs, userTotalDose) ==
  \/ Falsy(userCarbsEating)
  \/ Falsy(userInsulinCarbs)
  \/ IsNullOrUndefined(userTotalDose)

\* Math.abs(user - correct) > 0.3 is false: the step is marked with the
\* check mark.  user is a parsed field, correct a dose in tenths; with
\* user NaN the comparison is false too.
StepMarkedRight(user, correct) ==
  user.isNaN \/ LeqTenth(AbsDiff(user.val, correct), 3)

\* #feedback-section after displayFeedback(type, message, data): the
\* feedback type, the data, the operands printed in step 1 and, for each of
\* the four steps, whether it carries the check mark (TRUE) or the
\* "You calculated" warning (FALSE).
displayFeedback(type, data) ==
  [type |-> type,
   data |-> data,
   totalCarbsShown |-> RoundHalves(currentFood.totalCarbs * currentPortion),
   fiberShown |-> RoundHalves(currentFood.fiber * currentPortion),
   right |->
     [carbs |-> ~data.userCarbsEating.isNaN
                  /\ data.userCarbsEating.val = data.correctCarbs,
      insulinCarbs |-> StepMarkedRight(data.userInsulinCarbs, data.correctInsulinCarbs),
      correction |-> StepMarkedRight(data.userInsulinCorrection, data.correctInsulinCorrection),
      total |-> StepMarkedRight(data.userTotalDose, data.correctTotalDose)]]

\* The stats panel after updateStats(): the three textContent it writes.
updateStats(s) ==
  LET accuracy == IF s.totalAttempts > 0
                  THEN RoundPercent(s.correctAnswers, s.totalAttempts)
                  ELSE 0
  IN  [written |-> TRUE,
       totalAttempts |-> s.totalAttempts,
       correctCount |-> s.correctAnswers,
       accuracy |-> accuracy]

\* The four arguments are the parsed fields of the answer form.
checkAnswer(carbsEating, insulinCarbs, insulinCorrection, totalDose) ==
  LET userCarbsEating == carbsEating
      userInsulinCarbs == insulinCarbs
      userInsulinCorrection == OrZero(insulinCorrection)
      userTotalDose == totalDose
  IN
  IF AnswerRejected(userCarbsEating, userInsulinCarbs, userTotalDose) THEN
    /\ UNCHANGED <<currentFood, currentPortion, currentBG, userSettings, stats, feedback, statsPanel>>
    /\ raised' = AlertFillFields
  ELSE IF currentFood = NoFood THEN
    /\ UNCHANGED <<currentFood, currentPortion, currentBG, userSettings, stats, feedback, statsPanel>>
    /\ raised' = TypeErrorNull
  ELSE
    LET correctCarbs == CorrectCarbs(currentFood, currentPortion)
        correctInsulinCarbs == CorrectInsulinCarbs(correctCarbs, userSettings)
        correctInsulinCorrection == CorrectInsulinCorrection(currentBG, userSettings)
        correctTotalDose == CorrectTotalDose(correctInsulinCarbs, correctInsulinCorrection)
        feedbackType == FeedbackType(userTotalDose, userCarbsEating, correctTotalDose, correctCarbs)
    IN  /\ UNCHANGED <<currentFood, currentPortion, currentBG, userSettings>>
        /\ raised' = ""
        /\ stats' = CountAttempt(stats, feedbackType)
        /\ statsPanel' = updateStats(stats')
        /\ feedback' = displayFeedback(feedbackType,
             [userCarbsEating |-> userCarbsEating,
              userInsulinCarbs |-> userInsulinCarbs,
              userInsulinCorrection |-> userInsulinCorrection,
              userTotalDose |-> userTotalDose,
              correctCarbs |-> correctCarbs,
              correctInsulinCarbs |-> correctInsulinCarbs,
              correctInsulinCorrection |-> correctInsulinCorrection,
              correctTotalDose |-> correctTotalDose])

(***************************************************************************)
(* Inputs explored.                                                        *)
(***************************************************************************)
\* The settings form as startQuiz parses it: two forms it accepts, and the
\* first of them with one field (or two) emptied or out of range.
SettingsInputs ==
  LET form(c, f, t) == [carbRatio |-> c, correctionFactor |-> f, targetBG |-> t]
      ok == form(Num(10), Num(50), Num(100))
  IN  {ok, form(Num(20), Num(100), Num(100))}
      \cup {[ok EXCEPT !.carbRatio = x] : x \in {NaNField, Num(0), Num(-5)}}
      \cup {[ok EXCEPT !.correctionFactor = x] : x \in {NaNField, Num(0), Num(-10)}}
      \cup {[ok EXCEPT !.targetBG = x] : x \in {NaNField, Num(0), Num(69), Num(181)}}
      \cup {form(NaNField, Num(50), Num(181)), form(Num(-5), Num(50), Num(69))}

\* What the learner types, placed around the solution of the scenario shown
\* (grams above the correct carbs, tenths above the correct total dose).
CarbsOffsets == {0, 2, 3, 5, 6}
DoseOffsets  == {0, 3, 4, 10, 11}

AnswerInputs ==
  LET cc == CorrectCarbs(currentFood, currentPortion)
      ci == CorrectInsulinCarbs(cc, userSettings)
      cx == CorrectInsulinCorrection(currentBG, userSettings)
      ct == CorrectTotalDose(ci, cx)
      full(c, t) == [carbsEating |-> Num(c), insulinCarbs |-> Num(ci),
                     insulinCorrection |-> Num(cx), totalDose |-> Num(t)]
  IN  {full(cc + d, ct) : d \in CarbsOffsets}
      \cup {full(cc, ct + d) : d \in DoseOffsets}
      \cup {full(cc + 3, ct + 4), full(cc + 5, ct + 10)}
      \cup {[full(cc, ct) EXCEPT !.carbsEating = f] : f \in {NaNField, Num(0)}}
      \cup {[full(cc, ct) EXCEPT !.insulinCarbs = f] :
               f \in {NaNField, Num(0), Num(ci + 3), Num(ci + 4)}}
      \cup {[full(cc, ct) EXCEPT !.insulinCorrection = f] :
               f \in {NaNField, Num(cx + 3), Num(cx + 4)}}
      \cup {[full(cc, ct) EXCEPT !.totalDose = f] : f \in {NaNField, Num(0)}}

(***************************************************************************)
(* The page: any handler may be called at any time.                        *)
(***************************************************************************)
StartQuizCall ==
  /\ UNCHANGED <<fractalVars, quizVars>>
  /\ \E f \in SettingsInputs : startQuiz(f.carbRatio, f.correctionFactor, f.targetBG)

NextQuestionCall ==
  /\ UNCHANGED <<fractalVars, quizVars>>
  /\ nextQuestion

CheckAnswerCall ==
  /\ stats.totalAttempts < MaxAttempts
  /\ UNCHANGED <<fractalVars, quizVars>>
  /\ \E a \in AnswerInputs :
       checkAnswer(a.carbsEating, a.insulinCarbs, a.insulinCorrection, a.totalDose)

Next == StartQuizCall \/ NextQuestionCall \/ CheckAnswerCall

Spec == Init /\ [][Next]_vars

(***************************************************************************)
(* The oracle and the grader on every scenario: any scenario of the        *)
(* catalog with any multiple of 5 in [80, 280] is shown under any accepted *)
(* settings, and one answer is checked.                                    *)
(***************************************************************************)
\* The forms startQuiz accepts, as it stores them.
Accepted(forms) ==
  { [carbRatio |-> f.carbRatio.val, correctionFactor |-> f.correctionFactor.val,
     targetBG |-> f.targetBG.val] :
      f \in { g \in forms :
                /\ ~SettingsMissing(g.carbRatio, g.correctionFactor, g.targetBG)
                /\ ~SettingsUnrealistic(g.carbRatio, g.correctionFactor, g.targetBG) } }

GradeSettings ==
  Accepted(SettingsInputs
             \cup {[carbRatio |-> Num(8), correctionFactor |-> Num(40), targetBG |-> Num(120)]})

InitScenario ==
  /\ \E i \in 1 .. Len(foodDatabase) :
       /\ currentFood = foodDatabase[i]
       /\ \E j \in 1 .. Len(foodDatabase[i].portions) :
            currentPortion = foodDatabase[i].portions[j]
  /\ currentBG \in { RoundToFive(bg) : bg \in 80 .. 280 }
  /\ userSettings \in GradeSettings
  /\ stats = [totalAttempts |-> 0, correctAnswers |-> 0]
  /\ feedback = NoFeedback
  /\ statsPanel = NoStatsPanel
  /\ raised = ""
  /\ FractalAtStart("null", 1024)
  /\ QuizAtStart

CheckOnce ==
  /\ feedback = NoFeedback
  /\ raised = ""
  /\ UNCHANGED <<fractalVars, quizVars>>
  /\ \E a \in AnswerInputs :
       checkAnswer(a.carbsEating, a.insulinCarbs, a.insulinCorrection, a.totalDose)

SpecGrade == InitScenario /\ [][CheckOnce]_vars

(***************************************************************************)
(* A long practice session: the learner keeps answering the first scenario *)
(* shown (Math.random() returned 0 three times) under the default          *)
(* settings.                                                               *)
(***************************************************************************)
InitSession ==
  /\ currentFood = foodDatabase[RandomIndex(0, Len(foodDatabase)) + 1]
  /\ currentPortion = currentFood.portions[RandomIndex(0, Len(currentFood.portions)) + 1]
  /\ currentBG = RoundToFive(DrawBG(0))
  /\ userSettings = [carbRatio |-> 10, correctionFactor |-> 50, targetBG |-> 100]
  /\ stats = [totalAttempts |-> 0, correctAnswers |-> 0]
  /\ feedback = NoFeedback
  /\ statsPanel = NoStatsPanel
  /\ raised = ""
  /\ FractalAtStart("null", 1024)
  /\ QuizAtStart

CheckAgain ==
  /\ stats.totalAttempts < MaxSession
  /\ UNCHANGED <<fractalVars, quizVars>>
  /\ \E a \in AnswerInputs :
       checkAnswer(a.carbsEating, a.insulinCarbs, a.insulinCorrection, a.totalDose)

SpecSession == InitSession /\ [][CheckAgain]_vars

(***************************************************************************)
(* The fractal background.                                                 *)
(*   theme         : the data-theme attribute of <html> ("null": absent)   *)
(*   innerWidth    : window.innerWidth                                     *)
(*   canvas        : the script's canvas: style.display, width, and the    *)
(*                   number of branch origin points painted on it          *)
(*   animationId   : as in the source, 0 for null                          *)
(*   frameRequests : the handles of the animation frame callbacks pending  *)
(*   lastHandle    : the last handle requestAnimationFrame returned        *)
(*   framesRun     : how many frame callbacks have run                     *)
(*   records       : the MutationRecords queued for the observer           *)
(*   loaded        : initFractal has run for the page load                 *)
(*   drew          : the last step ran the body of drawFractal             *)
(***************************************************************************)
Themes == {"dark", "light", "null"}

\* Two window widths, on either side of the 768 px mobile limit.
Widths == {480, 1024}

\* resizeCanvas(): setting the width clears the canvas.
resizeCanvas(c) ==
  IF c = NoCanvas THEN c ELSE [c EXCEPT !.width = innerWidth, !.points = 0]

\* drawFractal(): three origin points on mobile, four otherwise.
drawFractal(c) ==
  IF c = NoCanvas THEN c
  ELSE [c EXCEPT !.points = IF innerWidth < 768 THEN 3 ELSE 4]

\* The canvas after initFractal().
initFractal(c) ==
  IF theme # "dark" THEN
    IF c # NoCanvas THEN [c EXCEPT !.display = "none"] ELSE c
  ELSE
    LET shown == IF c = NoCanvas THEN [display |-> "", width |-> 300, points |-> 0]
                 ELSE [c EXCEPT !.display = "block"]
    IN  drawFractal(resizeCanvas(shown))

\* DOMContentLoaded (or the end of the script when the document was already
\* parsed).
PageLoad ==
  /\ ~loaded
  /\ records = 0
  /\ loaded' = TRUE
  /\ canvas' = initFractal(canvas)
  /\ drew' = (theme = "dark")
  /\ UNCHANGED <<theme, innerWidth, animationId, frameRequests, lastHandle,
                 framesRun, records>>
  /\ UNCHANGED <<dosingVars, quizVars>>

\* Some script sets (or removes) the data-theme attribute: a MutationRecord
\* is queued for the observer.
SetTheme(t) ==
  /\ records < MaxRecords
  /\ theme' = t
  /\ records' = records + 1
  /\ drew' = FALSE
  /\ UNCHANGED <<innerWidth, canvas, animationId, frameRequests, lastHandle,
                 framesRun, loaded>>
  /\ UNCHANGED <<dosingVars, quizVars>>

\* mutations.forEach(... initFractal() ...) over n records.
RECURSIVE ForEachMutation(_, _)
ForEachMutation(c, n) ==
  IF n = 0 THEN c ELSE ForEachMutation(initFractal(c), n - 1)

\* The MutationObserver callback, at the microtask checkpoint that ends the
\* task that changed the attribute.
ObserverCallback ==
  /\ records > 0
  /\ canvas' = ForEachMutation(canvas, records)
  /\ records' = 0
  /\ drew' = (theme = "dark")
  /\ UNCHANGED <<theme, innerWidth, animationId, frameRequests, lastHandle,
                 framesRun, loaded>>
  /\ UNCHANGED <<dosingVars, quizVars>>

handleResizeNoCancel ==
  /\ frameRequests' = frameRequests \cup {lastHandle + 1}
  /\ lastHandle' = lastHandle + 1
  /\ animationId' = lastHandle + 1

\* handleResize(): cancelAnimationFrame(animationId) when it is set, then
\* animationId = requestAnimationFrame(callback).
handleResize ==
  /\ frameRequests' =
       (IF animationId # 0 THEN frameRequests \ {animationId} ELSE frameRequests)
         \cup {lastHandle + 1}
  /\ lastHandle' = lastHandle + 1
  /\ animationId' = lastHandle + 1

\* A resize event: the window is now w pixels wide.
WindowResize(w) ==
  /\ records = 0
  /\ lastHandle < MaxResizes
  /\ innerWidth' = w
  /\ handleResize
  /\ drew' = FALSE
  /\ UNCHANGED <<theme, canvas, framesRun, records, loaded>>
  /\ UNCHANGED <<dosingVars, quizVars>>

\* The browser runs a pending animation frame callback:
\* resizeCanvas(); drawFractal(); animationId = null.
AnimationFrame ==
  /\ records = 0
  /\ \E h \in frameRequests :
       /\ frameRequests' = frameRequests \ {h}
       /\ canvas' = drawFractal(resizeCanvas(canvas))
       /\ animationId' = 0
       /\ framesRun' = framesRun + 1
       /\ drew' = (canvas # NoCanvas)
  /\ UNCHANGED <<theme, innerWidth, lastHandle, records, loaded>>
  /\ UNCHANGED <<dosingVars, quizVars>>

\* The dosing quiz script has just run (lines 139-151).
DosingAtStart ==
  /\ currentFood = NoFood
  /\ currentPortion = 2
  /\ currentBG = 120
  /\ userSettings = [carbRatio |-> 10, correctionFactor |-> 50, targetBG |-> 100]
  /\ stats = [totalAttempts |-> 0, correctAnswers |-> 0]
  /\ feedback = NoFeedback
  /\ statsPanel = NoStatsPanel
  /\ raised = ""

InitFractal ==
  /\ \E t \in Themes : \E w \in Widths : FractalAtStart(t, w)
  /\ DosingAtStart
  /\ QuizAtStart

NextFractal ==
  \/ PageLoad
  \/ \E t \in Themes : SetTheme(t)
  \/ ObserverCallback
  \/ \E w \in Widths : WindowResize(w)
  \/ AnimationFrame

\* The fractal script alone; the other two scripts stay at their start.
SpecFractal == InitFractal /\ [][NextFractal]_vars

(***************************************************************************)
(* The knowledge quiz (quiz.js).                                           *)
(*   quiz          : the global DiabetesQuiz: quizType, currentQuestion,   *)
(*                   score, answers, quizComplete (questions is            *)
(*                   quizData[quizType]).  An entry of answers keeps the   *)
(*                   index of its question and its correct flag; the       *)
(*                   texts and userAnswer, which nothing reads, are left   *)
(*                   out.                                                  *)
(*   quizContainer : what #quiz-container and the progress text show; a    *)
(*                   handler that throws leaves its TypeError here         *)
(* An answer is held as the text of the literal in the button's onclick:   *)
(* "0".."3" for an option index, "true" / "false".                         *)
(***************************************************************************)
quizData ==
  [adult |->
     << [type |-> "multiple", correct |-> "1"],
        [type |-> "boolean", correct |-> "false"],
        [type |-> "multiple", correct |-> "2"],
        [type |-> "boolean", correct |-> "false"],
        [type |-> "multiple", correct |-> "1"],
        [type |-> "boolean", correct |-> "true"],
        [type |-> "multiple", correct |-> "1"],
        [type |-> "boolean", correct |-> "false"],
        [type |-> "multiple", correct |-> "1"],
        [type |-> "boolean", correct |-> "false"],
        [type |-> "multiple", correct |-> "1"],
        [type |-> "boolean", correct |-> "true"],
        [type |-> "multiple", correct |-> "1"] >>,
   kid |->
     << [type |-> "multiple", correct |-> "0"],
        [type |-> "boolean", correct |-> "false"],
        [type |-> "multiple", correct |-> "1"],
        [type |-> "boolean", correct |-> "true"],
        [type |-> "multiple", correct |-> "2"],
        [type |-> "boolean", correct |-> "false"],
        [type |-> "multiple", correct |-> "1"],
        [type |-> "boolean", correct |-> "false"],
        [type |-> "multiple", correct |-> "1"],
        [type |-> "boolean", correct |-> "false"],
        [type |-> "multiple", correct |-> "0"],
        [type |-> "boolean", correct |-> "true"],
        [type |-> "multiple", correct |-> "0"] >>]

questions(q) == quizData[q.quizType]

\* new DiabetesQuiz(quizType)
DiabetesQuiz(quizType) ==
  [quizType |-> quizType, currentQuestion |-> 0, score |-> 0,
   answers |-> <<>>, quizComplete |-> FALSE]

\* renderQuestion() and updateProgress()
renderQuestion(q) ==
  [view |-> "question", number |-> q.currentQuestion + 1,
   type |-> questions(q)[q.currentQuestion + 1].type,
   progress |-> q.currentQuestion]

\* showFeedback(isCorrect, explanation)
showFeedback(q, isCorrect) ==
  [view |-> "feedback", correct |-> isCorrect,
   button |-> IF q.currentQuestion < Len(questions(q)) - 1
              THEN "Next Question" ELSE "See Results",
   progress |-> quizContainer.progress]

\* The page after showResults().
showResults(q) ==
  LET percentage == RoundPercent(q.score, Len(questions(q)))
  IN  [view |-> "results",
       percentage |-> percentage,
       score |-> q.score,
       performanceClass |-> IF percentage >= 90 THEN "excellent"
                            ELSE IF percentage >= 70 THEN "good"
                            ELSE IF percentage >= 50 THEN "okay"
                            ELSE "needs-improvement",
       progress |-> Len(questions(q))]

\* selectAnswer without its first line: question is undefined on a complete
\* quiz and question.type throws.
selectAnswerUnguarded(answer) ==
  IF quiz.currentQuestion >= Len(questions(quiz)) THEN
    /\ UNCHANGED quiz
    /\ quizContainer' = [view |-> "TypeError: question is undefined"]
  ELSE
    LET question == questions(quiz)[quiz.currentQuestion + 1]
        isCorrect == answer = question.correct
    IN  /\ quiz' = [quiz EXCEPT
                      !.answers = Append(@, [question |-> quiz.currentQuestion,
                                             correct |-> isCorrect]),
                      !.score = IF isCorrect THEN @ + 1 ELSE @]
        /\ quizContainer' = showFeedback(quiz, isCorrect)

\* quiz.selectAnswer(answer)
selectAnswer(answer) ==
  IF quiz.quizComplete THEN UNCHANGED <<quiz, quizContainer>>
  ELSE IF quiz.currentQuestion >= Len(questions(quiz)) THEN
    /\ UNCHANGED quiz
    /\ quizContainer' = [view |-> "TypeError: question is undefined"]
  ELSE
    LET question == questions(quiz)[quiz.currentQuestion + 1]
        isCorrect == answer = question.correct
    IN  /\ quiz' = [quiz EXCEPT
                      !.answers = Append(@, [question |-> quiz.currentQuestion,
                                             correct |-> isCorrect]),
                      !.score = IF isCorrect THEN @ + 1 ELSE @]
        /\ quizContainer' = showFeedback(quiz, isCorrect)

\* nextQuestion with a showResults that leaves quizComplete alone.
quizNextQuestionNoFlag ==
  LET advanced == [quiz EXCEPT !.currentQuestion = @ + 1]
  IN  /\ quiz' = advanced
      /\ quizContainer' = IF advanced.currentQuestion < Len(questions(quiz))
                          THEN renderQuestion(advanced)
                          ELSE showResults(advanced)

\* quiz.nextQuestion()
quizNextQuestion ==
  LET advanced == [quiz EXCEPT !.currentQuestion = @ + 1]
  IN  IF advanced.currentQuestion < Len(questions(quiz)) THEN
        /\ quiz' = advanced
        /\ quizContainer' = renderQuestion(advanced)
      ELSE
        /\ quiz' = [advanced EXCEPT !.quizComplete = TRUE]
        /\ quizContainer' = showResults(advanced)

\* quiz.showReview()
showReview ==
  /\ quizContainer' = [view |-> "review", items |-> quiz.answers,
                       progress |-> quizContainer.progress]
  /\ UNCHANGED quiz

\* restartQuiz()
restartQuiz ==
  /\ quiz' = DiabetesQuiz(quiz.quizType)
  /\ quizContainer' = renderQuestion(quiz')

\* The number of slips in the run that led to q.
Slips(q) ==
  LET n        == Len(questions(q))
      entries  == 1 .. Len(q.answers)
      wrong    == Cardinality({i \in entries : ~q.answers[i].correct})
      answered == {q.answers[i].question : i \in entries}
      repeated == Len(q.answers) - Cardinality(answered)
      passed   == IF q.currentQuestion < n THEN q.currentQuestion ELSE n
      skipped  == Cardinality((0 .. passed - 1) \ answered)
      overrun  == q.currentQuestion - passed
  IN  wrong + repeated + skipped + overrun

QuizArguments == {"0", "1", "2", "3", "true", "false"}

SelectAnswerCall ==
  /\ \E answer \in QuizArguments : selectAnswer(answer)
  /\ Slips(quiz') <= MaxSlips
  /\ UNCHANGED <<dosingVars, fractalVars>>

QuizNextQuestionCall ==
  /\ quizNextQuestion
  /\ Slips(quiz') <= MaxSlips
  /\ UNCHANGED <<dosingVars, fractalVars>>

ShowReviewCall ==
  /\ showReview
  /\ UNCHANGED <<dosingVars, fractalVars>>

RestartQuizCall ==
  /\ restartQuiz
  /\ UNCHANGED <<dosingVars, fractalVars>>

\* After startQuiz(type): quiz = new DiabetesQuiz(type); quiz.init().
InitQuiz ==
  /\ \E type \in {"adult", "kid"} :
       /\ quiz = DiabetesQuiz(type)
       /\ quizContainer = renderQuestion(quiz)
  /\ DosingAtStart
  /\ FractalAtStart("null", 1024)

NextQuiz ==
  \/ SelectAnswerCall
  \/ QuizNextQuestionCall
  \/ ShowReviewCall
  \/ RestartQuizCall

SpecQuiz == InitQuiz /\ [][NextQuiz]_vars

(***************************************************************************)
(* The reference arithmetic of the specification, on exact rationals.      *)
(***************************************************************************)
\* p/q rounded to one decimal, halves away from zero (p >= 0, q > 0), in tenths.
RefRound1(p, q) == (20 * p + q) \div (2 * q)

\* p/q lies exactly halfway between two tenths.
Halfway(p, q) == (20 * p + q) % (2 * q) = 0

RefNetCarbs(food, portion) ==
  LET twice == (food.totalCarbs - food.fiber) * portion
  IN  IF twice % 2 = 0 THEN twice \div 2 ELSE (twice + 1) \div 2

RefCorrection(bg, settings) ==
  IF bg > settings.targetBG
  THEN RefRound1(bg - settings.targetBG, settings.correctionFactor)
  ELSE 0

\* |u - c| <= t on the numbers typed and shown (tenths, or grams).
ExactWithin(u, c, t) == ~u.isNaN /\ u.val - c <= t /\ c - u.val <= t

Graded == feedback.type # "none"

RequiredMissing(a) == a.carbsEating.isNaN \/ a.insulinCarbs.isNaN \/ a.totalDose.isNaN

Check(a) == checkAnswer(a.carbsEating, a.insulinCarbs, a.insulinCorrection, a.totalDose)

(***************************************************************************)
(* Claims.                                                                 *)
(***************************************************************************)

\* C1: a checkAnswer call in which carbsEaten, insulinForCarbs or totalDose
\* is missing or non-numeric is rejected before grading, and leaves
\* stats.totalAttempts and stats.correctAnswers unchanged.
C1_IncompleteRejected ==
  [][\A a \in AnswerInputs :
       (Check(a) /\ RequiredMissing(a))
         => (raised' = AlertFillFields /\ stats' = stats /\ feedback' = feedback)]_vars

\* C2: checkAnswer grades, and counts as one attempt, every submission whose
\* three required fields are present and numeric, whatever their value (0
\* included); an empty correction field is taken as 0 and never rejects.
C2_NumericGraded ==
  [][\A a \in AnswerInputs :
       (Check(a) /\ ~RequiredMissing(a))
         => /\ raised' = ""
            /\ feedback'.type # "none"
            /\ stats'.totalAttempts = stats.totalAttempts + 1
            /\ feedback'.data.userInsulinCorrection
                 = (IF a.insulinCorrection.isNaN THEN Num(0) ELSE a.insulinCorrection)]_vars

\* C3: the tier of a graded submission is Correct iff |totalDose - correct
\* total| <= 0.3 and |carbs - correct carbs| <= 2, otherwise Close iff
\* |totalDose - correct total| <= 1 and |carbs - correct carbs| <= 5,
\* otherwise Incorrect; insulinForCarbs and correction play no part.
C3_TierByThresholds ==
  Graded =>
    LET d == feedback.data
    IN  feedback.type =
          IF ExactWithin(d.userTotalDose, d.correctTotalDose, 3)
               /\ ExactWithin(d.userCarbsEating, d.correctCarbs, 2) THEN "correct"
          ELSE IF ExactWithin(d.userTotalDose, d.correctTotalDose, 10)
               /\ ExactWithin(d.userCarbsEating, d.correctCarbs, 5) THEN "close"
          ELSE "incorrect"

\* C4: a graded checkAnswer call adds exactly 1 to stats.totalAttempts and
\* adds 1 to stats.correctAnswers iff the tier is Correct; every other step
\* (startQuiz, generateQuestion, nextQuestion, a rejected checkAnswer)
\* leaves both counters as they are.
C4_CountersStep ==
  [][IF raised' = "" /\ feedback'.type # "none"
     THEN stats' = [totalAttempts |-> stats.totalAttempts + 1,
                    correctAnswers |-> stats.correctAnswers
                      + (IF feedback'.type = "correct" THEN 1 ELSE 0)]
     ELSE stats' = stats]_vars

\* C4 witness: two attempts, one of them Correct, counted across a
\* regenerated scenario.
C4_Witness ==
  /\ stats = [totalAttempts |-> 2, correctAnswers |-> 1]
  /\ feedback.type = "none"
  /\ currentFood # NoFood

\* C5: the correct values computed in checkAnswer equal the reference:
\* netCarbs = round((totalCarbs - fiber) * portion), halves up;
\* insulinForCarbs = round1(netCarbs / carbRatio); correctionDose =
\* round1((currentBG - targetBG) / correctionFactor) above target, else 0;
\* totalDose = round1(insulinForCarbs + correctionDose).
C5_OracleMatchesReference ==
  Graded =>
    LET d  == feedback.data
        nc == RefNetCarbs(currentFood, currentPortion)
        ic == RefRound1(nc, userSettings.carbRatio)
        cx == RefCorrection(currentBG, userSettings)
    IN  /\ d.correctCarbs = nc
        /\ d.correctInsulinCarbs = ic
        /\ d.correctInsulinCorrection = cx
        /\ d.correctTotalDose = ic + cx

\* C6: each dose quantity is rounded to 1 decimal with halves away from
\* zero: a quotient exactly halfway between two tenths (17/20, 35/100)
\* gives the larger tenth.
C6_HalfwayRoundsUp ==
  Graded =>
    LET d  == feedback.data
        bgDifference == currentBG - userSettings.targetBG
    IN  /\ Halfway(d.correctCarbs, userSettings.carbRatio)
             => d.correctInsulinCarbs * 2 * userSettings.carbRatio
                  = 20 * d.correctCarbs + userSettings.carbRatio
        /\ (bgDifference > 0 /\ Halfway(bgDifference, userSettings.correctionFactor))
             => d.correctInsulinCorrection * 2 * userSettings.correctionFactor
                  = 20 * bgDifference + userSettings.correctionFactor

\* C7: the correct totalDose is exactly the sum of the rounded
\* insulinForCarbs and the rounded correctionDose, as one-decimal numbers.
C7_TotalIsSum ==
  Graded =>
    feedback.data.correctTotalDose
      = feedback.data.correctInsulinCarbs + feedback.data.correctInsulinCorrection

\* C7 witness: 0.6 + 0.3, whose double sum 0.8999999999999999 is not the
\* double 0.9, shown as total 0.9.
C7_Witness ==
  /\ Graded
  /\ feedback.data.correctInsulinCarbs = 6
  /\ feedback.data.correctInsulinCorrection = 3
  /\ feedback.data.correctTotalDose = 9

\* C8: the correct correctionDose is >= 0, is exactly 0 whenever
\* currentBG <= targetBG, and so the correct totalDose is never below the
\* correct insulinForCarbs.
C8_CorrectionNonNegative ==
  Graded =>
    /\ feedback.data.correctInsulinCorrection >= 0
    /\ currentBG <= userSettings.targetBG => feedback.data.correctInsulinCorrection = 0
    /\ feedback.data.correctTotalDose >= feedback.data.correctInsulinCarbs

\* C8 witness: a scenario below target graded with no correction.
C8_Witness ==
  /\ Graded
  /\ currentBG < userSettings.targetBG
  /\ feedback.data.correctInsulinCorrection = 0
  /\ feedback.data.correctTotalDose = feedback.data.correctInsulinCarbs

\* The constraints on the settings form, as the specification words them.
SettingsFieldMissing(f) ==
  f.carbRatio.isNaN \/ f.correctionFactor.isNaN \/ f.targetBG.isNaN

SettingsOutOfRange(f) ==
  \/ f.carbRatio.val <= 0
  \/ f.correctionFactor.val <= 0
  \/ f.targetBG.val <= 0
  \/ f.targetBG.val < 70
  \/ f.targetBG.val > 180

SettingsInvalid(f) == SettingsFieldMissing(f) \/ SettingsOutOfRange(f)

Start(f) == startQuiz(f.carbRatio, f.correctionFactor, f.targetBG)

\* C9: startQuiz with a setting missing, non-numeric or non-positive, or
\* with targetBG outside [70,180], refuses: userSettings, the scenario and
\* stats stay as they are; and the refusal reports which constraint failed
\* (a field is missing, or a value is not realistic).
C9_InvalidSettingsRefused ==
  [][\A f \in SettingsInputs :
       (Start(f) /\ SettingsInvalid(f))
         => /\ UNCHANGED <<userSettings, currentFood, currentPortion, currentBG, stats>>
            /\ raised' = (IF SettingsFieldMissing(f) THEN AlertFillSettings
                          ELSE AlertRealistic)]_vars

\* C10: userSettings always has carbRatio > 0, correctionFactor > 0 and
\* 70 <= targetBG <= 180; it changes only in a startQuiz call whose form
\* passes validation, and nextQuestion (generateQuestion) and checkAnswer
\* leave it unchanged.
C10_SettingsValid ==
  /\ [](/\ userSettings.carbRatio > 0
        /\ userSettings.correctionFactor > 0
        /\ userSettings.targetBG >= 70
        /\ userSettings.targetBG <= 180)
  /\ [][userSettings' # userSettings
          => /\ \E f \in SettingsInputs :
                  /\ ~SettingsInvalid(f)
                  /\ userSettings' = [carbRatio |-> f.carbRatio.val,
                                      correctionFactor |-> f.correctionFactor.val,
                                      targetBG |-> f.targetBG.val]
                  /\ Start(f)
             /\ ~nextQuestion
             /\ ~(\E a \in AnswerInputs : Check(a))]_vars

\* C10 witness: an attempt scored under settings that startQuiz replaced.
C10_Witness ==
  /\ userSettings = [carbRatio |-> 20, correctionFactor |-> 100, targetBG |-> 100]
  /\ Graded
  /\ stats.totalAttempts = 1

\* round(100 * c / t) on exact rationals, halves up; 0 when t = 0.
RefAccuracy(c, t) == IF t > 0 THEN (200 * c + t) \div (2 * t) ELSE 0

\* C11: the accuracy shown by updateStats equals
\* round(100 * correctAnswers / totalAttempts) when totalAttempts > 0 and 0
\* when totalAttempts = 0, after any sequence of attempts.
C11_AccuracyShown ==
  statsPanel.written =>
    /\ statsPanel.totalAttempts = stats.totalAttempts
    /\ statsPanel.correctCount = stats.correctAnswers
    /\ statsPanel.accuracy = RefAccuracy(stats.correctAnswers, stats.totalAttempts)

\* The drawn scenario is well formed.
ScenarioValid ==
  /\ \E i \in 1 .. Len(foodDatabase) : currentFood = foodDatabase[i]
  /\ \E j \in 1 .. Len(currentFood.portions) : currentPortion = currentFood.portions[j]
  /\ currentBG % 5 = 0
  /\ 80 <= currentBG
  /\ currentBG <= 280

\* C12: after every generateQuestion call, for every outcome of the random
\* source, currentFood is an entry of the catalog, currentPortion is a
\* member of currentFood.portions, and currentBG is a multiple of 5 with
\* 80 <= currentBG <= 280 (every integer 80..280 that
\* Math.floor(Math.random() * 201) + 80 can draw is rounded into that set).
C12_ScenarioValid ==
  /\ [][generateQuestion => ScenarioValid']_vars
  /\ [](\A bg \in 80 .. 280 :
          /\ RoundToFive(bg) % 5 = 0
          /\ 80 <= RoundToFive(bg)
          /\ RoundToFive(bg) <= 280)

\* C12 witness: nextQuestion has replaced a graded scenario by the draw
\* (1/2, 1/2, 1/2): Pizza, 2 servings, BG 180.
C12_Witness ==
  /\ stats.totalAttempts = 1
  /\ feedback = NoFeedback
  /\ currentFood = foodDatabase[7]
  /\ currentPortion = 4
  /\ currentBG = 180

\* C13: each of the twelve catalog entries has fiber <= totalCarbs; for
\* every catalog food and every portion of it the correct netCarbs =
\* round((totalCarbs - fiber) * portion) is never negative; and no operation
\* mutates the catalog: the entry that currentFood refers to still equals
\* the catalog's after every step.
C13_CatalogInvariant ==
  /\ Len(foodDatabase) = 12
  /\ \A i \in 1 .. Len(foodDatabase) :
       /\ foodDatabase[i].fiber <= foodDatabase[i].totalCarbs
       /\ \A j \in 1 .. Len(foodDatabase[i].portions) :
            CorrectCarbs(foodDatabase[i], foodDatabase[i].portions[j]) >= 0
  /\ \E i \in 1 .. Len(foodDatabase) : currentFood = foodDatabase[i]
  /\ Graded => feedback.data.correctCarbs >= 0

\* C13 witness: the food with the least net carbs, Peanut Butter (7 g - 2 g),
\* graded at one serving: 5 g.
C13_Witness ==
  /\ Graded
  /\ currentFood = foodDatabase[5]
  /\ currentPortion = 2
  /\ feedback.data.correctCarbs = 5

scenario == <<currentFood, currentPortion, currentBG>>

\* C14: the scenario is immutable between generations: checkAnswer,
\* accepted or rejected (with its displayFeedback and updateStats), leaves
\* currentFood, currentPortion and currentBG unchanged; only generateQuestion
\* changes them, all three in one step; so the solution on screen is always
\* that of the scenario on screen.
C14_ScenarioImmutable ==
  /\ [][scenario' # scenario
          => /\ generateQuestion
             /\ ~(\E a \in AnswerInputs : Check(a))]_vars
  /\ [](Graded =>
          /\ feedback.data.correctCarbs = CorrectCarbs(currentFood, currentPortion)
          /\ feedback.data.correctInsulinCorrection
               = CorrectInsulinCorrection(currentBG, userSettings))

\* C14 witness: a second scenario, drawn by nextQuestion after a first
\* attempt, has been graded and is still the current one.
C14_Witness ==
  /\ Graded
  /\ raised = ""
  /\ stats.totalAttempts = 2
  /\ scenario = <<foodDatabase[7], 2, 80>>

\* The step is a graded checkAnswer call (the only step that ends with a
\* solution on screen and nothing raised).
GradedStep == raised' = "" /\ feedback'.type # "none"

\* The graded step re-submits the field values of the submission whose
\* solution is on screen, on the same scenario and settings.
Resubmission ==
  /\ Graded
  /\ GradedStep
  /\ scenario' = scenario
  /\ userSettings' = userSettings
  /\ feedback'.data.userCarbsEating = feedback.data.userCarbsEating
  /\ feedback'.data.userInsulinCarbs = feedback.data.userInsulinCarbs
  /\ feedback'.data.userInsulinCorrection = feedback.data.userInsulinCorrection
  /\ feedback'.data.userTotalDose = feedback.data.userTotalDose

\* C15: checkAnswer called twice in a row with the same field values on the
\* same scenario and settings gives the same tier both times, and each call
\* is counted once: the second call, like the first, adds 1 to
\* totalAttempts, and 1 to correctAnswers iff that tier is Correct.
C15_RegradeSameTier ==
  [][Resubmission
       => /\ feedback'.type = feedback.type
          /\ feedback'.data = feedback.data
          /\ stats'.totalAttempts = stats.totalAttempts + 1
          /\ stats'.correctAnswers
               = stats.correctAnswers + (IF feedback.type = "correct" THEN 1 ELSE 0)
          /\ stats.totalAttempts >= 1
          /\ feedback.type = "correct" => stats.correctAnswers >= 1]_vars

\* C15 witness: the correct answer of the first scenario submitted twice
\* from a fresh session.
C15_Witness ==
  /\ Graded
  /\ feedback.type = "correct"
  /\ stats = [totalAttempts |-> 2, correctAnswers |-> 2]
  /\ scenario = <<foodDatabase[1], 1, 80>>
  /\ feedback.data.userCarbsEating = Num(feedback.data.correctCarbs)
  /\ feedback.data.userTotalDose = Num(feedback.data.correctTotalDose)

\* C16: in the explanation of every graded submission the net-carbs step is
\* marked right iff the submitted carbs equal correctCarbs exactly, and each
\* of the carb-insulin, correction and total-dose steps is marked right iff
\* the value submitted for it is within 0.3 units of the correct value.
C16_StepFlags ==
  Graded =>
    LET d == feedback.data
    IN  /\ feedback.right.carbs
             = (~d.userCarbsEating.isNaN /\ d.userCarbsEating.val = d.correctCarbs)
        /\ feedback.right.insulinCarbs
             = ExactWithin(d.userInsulinCarbs, d.correctInsulinCarbs, 3)
        /\ feedback.right.correction
             = ExactWithin(d.userInsulinCorrection, d.correctInsulinCorrection, 3)
        /\ feedback.right.total
             = ExactWithin(d.userTotalDose, d.correctTotalDose, 3)

\* C17: displayFeedback has no side effect on the engine state, whatever
\* the feedback type and data: after it has run, stats holds exactly what
\* checkAnswer counted before calling it (one attempt, and one correct
\* answer in the correct branch), which is what updateStats then shows, and
\* userSettings and the scenario are what they were.
C17_FeedbackPure ==
  [][GradedStep
       => /\ stats'.totalAttempts = stats.totalAttempts + 1
          /\ stats'.correctAnswers - stats.correctAnswers
               = (IF feedback'.type = "correct" THEN 1 ELSE 0)
          /\ statsPanel'.totalAttempts = stats'.totalAttempts
          /\ statsPanel'.correctCount = stats'.correctAnswers
          /\ userSettings' = userSettings
          /\ scenario' = scenario]_vars

\* C17 witness: the explanation of an Incorrect submission has been built,
\* its carbs step carrying the warning and its three dose steps the check
\* mark.
C17_Witness ==
  /\ Graded
  /\ feedback.type = "incorrect"
  /\ ~feedback.right.carbs
  /\ feedback.right.insulinCarbs
  /\ feedback.right.correction
  /\ feedback.right.total
  /\ stats = [totalAttempts |-> 1, correctAnswers |-> 0]

\* x <= y for two doubles <<K, D>> that Math.abs of a dose difference gave.
LeqDouble(x, y) == x[1] < y[1] \/ (x[1] = y[1] /\ x[2] <= y[2])

\* Submission b is at least as close to the solution as the graded
\* submission d on both of checkAnswer's measures (doseDifference and
\* carbsDifference, as the code computes them).
AsCloseAs(b, d) ==
  /\ ~b.totalDose.isNaN
  /\ ~d.userTotalDose.isNaN
  /\ LeqDouble(AbsDiff(b.totalDose.val, d.correctTotalDose),
               AbsDiff(d.userTotalDose.val, d.correctTotalDose))
  /\ \A g \in 0 .. 6 :
       CarbsWithin(d.userCarbsEating, d.correctCarbs, g)
         => CarbsWithin(b.carbsEating, d.correctCarbs, g)

\* C18: the tiers are monotonic: a submission within the Correct thresholds
\* (dose difference <= 0.3, carbs difference <= 2) is within the Close
\* thresholds (<= 1, <= 5) too, and a submission at least as close to the
\* solution on both measures as one graded Close or Correct is never graded
\* Incorrect.
C18_TiersMonotonic ==
  Graded =>
    LET d == feedback.data
    IN  /\ (DoseWithin(d.userTotalDose, d.correctTotalDose, 3)
              /\ CarbsWithin(d.userCarbsEating, d.correctCarbs, 2))
             => (DoseWithin(d.userTotalDose, d.correctTotalDose, 10)
                   /\ CarbsWithin(d.userCarbsEating, d.correctCarbs, 5))
        /\ feedback.type = "correct"
             => (DoseWithin(d.userTotalDose, d.correctTotalDose, 10)
                   /\ CarbsWithin(d.userCarbsEating, d.correctCarbs, 5))
        /\ feedback.type # "incorrect"
             => \A b \in AnswerInputs :
                  (/\ ~AnswerRejected(b.carbsEating, b.insulinCarbs, b.totalDose)
                   /\ AsCloseAs(b, d))
                    => FeedbackType(b.totalDose, b.carbsEating,
                                    d.correctTotalDose, d.correctCarbs) # "incorrect"

\* C18 witness: a submission 3 g and 0.4 units off is graded Close (the
\* submission with the same dose and the exact carbs is closer on both
\* measures).
C18_Witness ==
  /\ Graded
  /\ feedback.type = "close"
  /\ feedback.data.userCarbsEating = Num(feedback.data.correctCarbs + 3)
  /\ feedback.data.userTotalDose = Num(feedback.data.correctTotalDose + 4)

\* C19: for every scenario the operands printed in step 1 of the solution
\* agree with its result: round(totalCarbs * portion) - round(fiber *
\* portion) = correctCarbs = round((totalCarbs - fiber) * portion).
C19_StepOneConsistent ==
  Graded =>
    /\ feedback.data.correctCarbs = CorrectCarbs(currentFood, currentPortion)
    /\ feedback.totalCarbsShown - feedback.fiberShown = feedback.data.correctCarbs

\* C20: in every state reachable by startQuiz, generateQuestion,
\* nextQuestion and checkAnswer calls, 0 <= stats.correctAnswers <=
\* stats.totalAttempts; neither counter ever decreases; and the accuracy
\* displayed is within 0..100.
C20_CountersBounded ==
  /\ [](/\ 0 <= stats.correctAnswers
        /\ stats.correctAnswers <= stats.totalAttempts
        /\ statsPanel.written
             => (0 <= statsPanel.accuracy /\ statsPanel.accuracy <= 100))
  /\ [][/\ stats'.totalAttempts >= stats.totalAttempts
        /\ stats'.correctAnswers >= stats.correctAnswers]_vars

\* C20 witness: after a Correct and then a Close attempt the panel shows
\* 1 of 2, 50%.
C20_Witness ==
  /\ Graded
  /\ feedback.type = "close"
  /\ stats = [totalAttempts |-> 2, correctAnswers |-> 1]
  /\ statsPanel.accuracy = 50

\* C21: the fractal runs only in dark mode: across any interleaving of page
\* load, data-theme changes and resize events, whenever data-theme is not
\* "dark" no drawFractal pass is executed, and the canvas, if it exists, is
\* hidden (once the observer has handled the change of theme).
C21_DarkModeOnly ==
  theme # "dark" =>
    /\ ~drew
    /\ (records = 0 /\ canvas # NoCanvas) => canvas.display = "none"

\* C22: resize handling is coalesced: at most one frame callback is pending
\* at any time, each handleResize cancelling the one scheduled before it, so
\* a burst of resize events before the next frame causes exactly one
\* resizeCanvas + drawFractal pass; and animationId is null whenever no
\* callback is pending.
C22_ResizeCoalesced ==
  /\ [](/\ Cardinality(frameRequests) <= 1
        /\ (animationId = 0) = (frameRequests = {})
        /\ animationId # 0 => frameRequests = {animationId}
        /\ framesRun <= lastHandle)
  /\ [][/\ lastHandle' # lastHandle
             => /\ frameRequests' = {lastHandle'}
                /\ animationId' = lastHandle'
                /\ framesRun' = framesRun
        /\ framesRun' # framesRun
             => /\ framesRun' = framesRun + 1
                /\ frameRequests # {}
                /\ frameRequests' = {}
                /\ animationId' = 0
                /\ canvas' = drawFractal(resizeCanvas(canvas))]_vars

\* C22 witness: three resize events, one frame callback run, on an existing
\* canvas, and nothing pending.
C22_Witness ==
  /\ lastHandle = 3
  /\ framesRun = 1
  /\ frameRequests = {}
  /\ animationId = 0
  /\ drew
  /\ canvas # NoCanvas
  /\ canvas.width = innerWidth

\* The number of entries answers holds for question k.
EntriesFor(k) ==
  Cardinality({i \in 1 .. Len(quiz.answers) : quiz.answers[i].question = k})

\* C23: after any sequence of selectAnswer and nextQuestion calls, answers
\* holds at most one entry per question (answers.length <=
\* questions.length), hence score <= questions.length, and the percentage
\* shown by showResults never exceeds 100.
C23_OneAnswerPerQuestion ==
  /\ \A k \in 0 .. Len(questions(quiz)) - 1 : EntriesFor(k) <= 1
  /\ Len(quiz.answers) <= Len(questions(quiz))
  /\ quiz.score <= Len(questions(quiz))
  /\ quizContainer.view = "results" => quizContainer.percentage <= 100

\* C24: quizComplete is true exactly when currentQuestion >= questions.length;
\* while the quiz is not complete selectAnswer and renderQuestion index an
\* existing question (no handler throws); the quiz becomes complete at the
\* nextQuestion call that takes currentQuestion to questions.length, and a
\* complete quiz stays complete until restartQuiz replaces it.
C24_CompleteIffPastLast ==
  /\ [](/\ quiz.quizType \in {"adult", "kid"}
        /\ quiz.quizComplete = (quiz.currentQuestion >= Len(questions(quiz)))
        /\ ~quiz.quizComplete => quiz.currentQuestion \in 0 .. Len(questions(quiz)) - 1
        /\ quizContainer.view \in {"question", "feedback", "results", "review"}
        /\ quizContainer.view = "question" =>
             quizContainer.number \in 1 .. Len(questions(quiz)))
  /\ [][/\ (~quiz.quizComplete /\ quiz'.quizComplete) =>
             /\ quiz.currentQuestion = Len(questions(quiz)) - 1
             /\ quiz'.currentQuestion = Len(questions(quiz))
        /\ (quiz.currentQuestion = Len(questions(quiz)) - 1
              /\ quiz'.currentQuestion = quiz.currentQuestion + 1) =>
             quiz'.quizComplete
        /\ quiz'.currentQuestion # quiz.currentQuestion =>
             \/ quiz'.currentQuestion = quiz.currentQuestion + 1
             \/ quiz' = DiabetesQuiz(quiz.quizType)
        /\ (quiz.quizComplete /\ ~quiz'.quizComplete) =>
             quiz' = DiabetesQuiz(quiz.quizType)]_vars

\* A complete quiz on which nextQuestion was called once more.
C24_Witness ==
  /\ quiz.quizComplete
  /\ quiz.currentQuestion = Len(questions(quiz)) + 1
  /\ Len(quiz.answers) = Len(questions(quiz))
  /\ quizContainer.view = "results"

\* C25: on a complete quiz selectAnswer is a no-op for every argument (score,
\* answers, currentQuestion and the page are unchanged); the score and the
\* answers of a complete quiz change only when restartQuiz replaces it by a
\* fresh quiz of the same quizType: score 0, no answers, currentQuestion 0.
C25_CompleteIsFrozen ==
  [][quiz.quizComplete =>
       /\ \A answer \in QuizArguments :
            selectAnswer(answer) => UNCHANGED <<quiz, quizContainer>>
       /\ \/ /\ quiz'.score = quiz.score
             /\ quiz'.answers = quiz.answers
             /\ quiz'.quizType = quiz.quizType
             /\ quiz'.quizComplete
             /\ quizContainer'.view = "results" =>
                  /\ quizContainer'.score = quiz.score
                  /\ quizContainer'.percentage
                       = RoundPercent(quiz.score, Len(questions(quiz)))
             /\ quizContainer'.view = "review" =>
                  quizContainer'.items = quiz.answers
          \/ /\ quiz'.quizType = quiz.quizType
             /\ quiz'.score = 0
             /\ quiz'.answers = <<>>
             /\ quiz'.currentQuestion = 0
             /\ ~quiz'.quizComplete
             /\ quizContainer' = renderQuestion(quiz')]_vars

\* The review of a complete quiz with both a right and a wrong answer.
C25_Witness ==
  /\ quiz.quizComplete
  /\ quizContainer.view = "review"
  /\ quizContainer.items = quiz.answers
  /\ Len(quiz.answers) = Len(questions(quiz))
  /\ quiz.score = Len(questions(quiz)) - 1

====
